---------------------------- MODULE Spec2Model ----------------------------
(***************************************************************************)
(* A model of correct_rgc (src/gal_radii_pb.py): the deprojected           *)
(* galactocentric distance of sky coordinates.                             *)
(*                                                                         *)
(* Numbers.  The function computes in IEEE-754 binary64 through numpy and  *)
(* astropy.  The model computes in a decimal floating point of six         *)
(* significant digits with the same special values (NaN, +/-infinity) and  *)
(* the same rules for them: x/0 is +/-infinity, 0/0 is NaN, NaN            *)
(* propagates, and a division by zero is a warning, never an exception     *)
(* (the operands are numpy float64 values).  Every operation rounds its    *)
(* result to six digits.                                                   *)
(*                                                                         *)
(* Trigonometry.  numpy's sin and cos are tabulated every half degree      *)
(* (SinTab, CosTab hold what numpy returns, to six digits, including       *)
(* cos(pi/2) = 6.12323e-17, which is not zero); an argument is rounded to  *)
(* the nearest half degree, and arctan returns the nearest half degree.    *)
(***************************************************************************)
EXTENDS Integers, Sequences, FiniteSets, TLC

Abs(n) == IF n < 0 THEN -n ELSE n

Sgn(n) == IF n < 0 THEN -1 ELSE IF n > 0 THEN 1 ELSE 0

Pow10(k) == IF k <= 0 THEN 1 ELSE 10 ^ k

\* Number of decimal digits of a positive integer below 2^31.
NumDigits(n) ==
  IF n < 100000
    THEN IF n < 10 THEN 1 ELSE IF n < 100 THEN 2 ELSE IF n < 1000 THEN 3
         ELSE IF n < 10000 THEN 4 ELSE 5
    ELSE IF n < 1000000 THEN 6 ELSE IF n < 10000000 THEN 7
         ELSE IF n < 100000000 THEN 8 ELSE IF n < 1000000000 THEN 9 ELSE 10

\* The float values: finite m * 10^e (m = 0, or six digits), infinities, NaN.
NaN == [k |-> "nan", m |-> 0, e |-> 0]

Inf(s) == [k |-> "inf", m |-> s, e |-> 0]

Zero == [k |-> "fin", m |-> 0, e |-> 0]

IsNaN(a) == a.k = "nan"

IsInf(a) == a.k = "inf"

IsFinite(a) == a.k = "fin"

IsZero(a) == a.k = "fin" /\ a.m = 0

\* Round the integer m * 10^e to six digits (half away from zero).
Norm(m, e) ==
  IF m = 0 THEN Zero
  ELSE LET a == Abs(m)
           d == NumDigits(a)
       IN  IF d <= 6
             THEN [k |-> "fin", m |-> Sgn(m) * a * Pow10(6 - d), e |-> e - (6 - d)]
             ELSE LET p == Pow10(d - 6)
                      r == (a + p \div 2) \div p
                  IN  IF r = 1000000
                        THEN [k |-> "fin", m |-> Sgn(m) * 100000, e |-> e + (d - 6) + 1]
                        ELSE [k |-> "fin", m |-> Sgn(m) * r, e |-> e + (d - 6)]

\* A float literal m * 10^e.
F(m, e) == Norm(m, e)

Neg(a) == IF a.k = "nan" THEN NaN ELSE [a EXCEPT !.m = -a.m]

FAbs(a) == IF a.k = "nan" THEN NaN ELSE [a EXCEPT !.m = Abs(a.m)]

\* Sign of a non-NaN float: -1, 0, 1.
FSgn(a) == Sgn(a.m)

\* a < b on non-NaN floats (every comparison with NaN is false).
Lt(a, b) ==
  /\ a.k # "nan" /\ b.k # "nan"
  /\ IF a.k = "inf" \/ b.k = "inf"
       THEN IF a.k = "inf" /\ b.k = "inf" THEN a.m < b.m
            ELSE IF a.k = "inf" THEN a.m < 0 ELSE b.m > 0
       ELSE IF FSgn(a) # FSgn(b) THEN FSgn(a) < FSgn(b)
            ELSE IF FSgn(a) = 0 THEN FALSE
            ELSE IF a.e # b.e THEN (IF FSgn(a) > 0 THEN a.e < b.e ELSE a.e > b.e)
            ELSE a.m < b.m

Leq(a, b) == a.k # "nan" /\ b.k # "nan" /\ ~Lt(b, a)

\* a * b.
Mul(a, b) ==
  IF a.k = "nan" \/ b.k = "nan" THEN NaN
  ELSE IF a.k = "inf" \/ b.k = "inf"
    THEN IF a.m = 0 \/ b.m = 0 THEN NaN ELSE Inf(Sgn(a.m) * Sgn(b.m))
  ELSE IF a.m = 0 \/ b.m = 0 THEN Zero
  ELSE LET am == Abs(a.m)
           bm == Abs(b.m)
           a1 == am \div 1000
           a0 == am % 1000
           b1 == bm \div 1000
           b0 == bm % 1000
           \* the product's leading digits: am * bm \div 10^4
           t  == a1 * b1 * 100 + ((a1 * b0 + a0 * b1) * 1000 + a0 * b0) \div 10000
       IN  Norm(Sgn(a.m) * Sgn(b.m) * t, a.e + b.e + 4)

\* a / b: IEEE division, x/0 = +/-inf and 0/0 = NaN (a zero divisor is +0).
Div(a, b) ==
  IF a.k = "nan" \/ b.k = "nan" THEN NaN
  ELSE IF a.k = "inf"
    THEN IF b.k = "inf" THEN NaN
         ELSE Inf(a.m * (IF b.m < 0 THEN -1 ELSE 1))
  ELSE IF b.k = "inf" THEN Zero
  ELSE IF b.m = 0
    THEN IF a.m = 0 THEN NaN ELSE Inf(Sgn(a.m))
  ELSE IF a.m = 0 THEN Zero
  ELSE LET am == Abs(a.m)
           bm == Abs(b.m)
           n1 == am * 1000
           q1 == n1 \div bm
           n2 == (n1 % bm) * 1000
           q2 == n2 \div bm
           n3 == (n2 % bm) * 10
           q3 == n3 \div bm
       IN  Norm(Sgn(a.m) * Sgn(b.m) * ((q1 * 1000 + q2) * 10 + q3), a.e - b.e - 7)

\* Integer m rounded to a multiple of 10^k, divided by 10^k (half away from zero).
RoundDiv(m, k) ==
  LET p == Pow10(k) IN Sgn(m) * ((Abs(m) + p \div 2) \div p)

\* a + b.
Add(a, b) ==
  IF a.k = "nan" \/ b.k = "nan" THEN NaN
  ELSE IF a.k = "inf"
    THEN IF b.k = "inf" /\ b.m # a.m THEN NaN ELSE a
  ELSE IF b.k = "inf" THEN b
  ELSE IF a.m = 0 THEN b
  ELSE IF b.m = 0 THEN a
  ELSE LET hi == IF a.e >= b.e THEN a ELSE b
           lo == IF a.e >= b.e THEN b ELSE a
           d  == hi.e - lo.e
       IN  IF d > 7 THEN hi
           ELSE IF d <= 3 THEN Norm(hi.m * Pow10(d) + lo.m, lo.e)
           ELSE Norm(hi.m * 1000 + RoundDiv(lo.m, d - 3), hi.e - 3)

Sub(a, b) == Add(a, Neg(b))

\* Largest r in lo..hi-1 with r * r <= n (n < 10^9).
RECURSIVE ISqrt(_, _, _)
ISqrt(n, lo, hi) ==
  IF hi - lo <= 1 THEN lo
  ELSE LET mid == (lo + hi) \div 2
       IN  IF mid * mid <= n THEN ISqrt(n, mid, hi) ELSE ISqrt(n, lo, mid)

\* numpy.sqrt: NaN for a negative argument.
Sqrt(a) ==
  IF a.k = "nan" THEN NaN
  ELSE IF a.k = "inf" THEN (IF a.m > 0 THEN a ELSE NaN)
  ELSE IF a.m = 0 THEN Zero
  ELSE IF a.m < 0 THEN NaN
  ELSE IF a.e % 2 = 0
    THEN LET n == a.m * 100
             s == ISqrt(n, 0, 31623)
         IN  Norm(1000 * s + (500 * (n - s * s)) \div s, (a.e - 8) \div 2)
    ELSE LET n == a.m * 1000
             s == ISqrt(n, 0, 31623)
         IN  Norm(100 * s + (50 * (n - s * s)) \div s, (a.e - 7) \div 2)

\* The integer nearest to a finite float of small magnitude.
RoundInt(a) ==
  IF a.m = 0 THEN 0
  ELSE IF a.e >= 0 THEN a.m * Pow10(a.e)
  ELSE IF -a.e > 7 THEN 0
  ELSE RoundDiv(a.m, -a.e)

(***************************************************************************)
(* numpy's sin and cos at 0, 0.5, ..., 90 degrees (entry h + 1 is the      *)
(* value at h half degrees), as <<m, e>> for m * 10^e.                      *)
(***************************************************************************)
SinTab ==
  <<
    <<0, 0>>, <<872654, -8>>, <<174524, -7>>, <<261769, -7>>, <<348995, -7>>, <<436194, -7>>,
    <<523360, -7>>, <<610485, -7>>, <<697565, -7>>, <<784591, -7>>, <<871557, -7>>, <<958458, -7>>,
    <<104528, -6>>, <<113203, -6>>, <<121869, -6>>, <<130526, -6>>, <<139173, -6>>, <<147809, -6>>,
    <<156434, -6>>, <<165048, -6>>, <<173648, -6>>, <<182236, -6>>, <<190809, -6>>, <<199368, -6>>,
    <<207912, -6>>, <<216440, -6>>, <<224951, -6>>, <<233445, -6>>, <<241922, -6>>, <<250380, -6>>,
    <<258819, -6>>, <<267238, -6>>, <<275637, -6>>, <<284015, -6>>, <<292372, -6>>, <<300706, -6>>,
    <<309017, -6>>, <<317305, -6>>, <<325568, -6>>, <<333807, -6>>, <<342020, -6>>, <<350207, -6>>,
    <<358368, -6>>, <<366501, -6>>, <<374607, -6>>, <<382683, -6>>, <<390731, -6>>, <<398749, -6>>,
    <<406737, -6>>, <<414693, -6>>, <<422618, -6>>, <<430511, -6>>, <<438371, -6>>, <<446198, -6>>,
    <<453990, -6>>, <<461749, -6>>, <<469472, -6>>, <<477159, -6>>, <<484810, -6>>, <<492424, -6>>,
    <<500000, -6>>, <<507538, -6>>, <<515038, -6>>, <<522499, -6>>, <<529919, -6>>, <<537300, -6>>,
    <<544639, -6>>, <<551937, -6>>, <<559193, -6>>, <<566406, -6>>, <<573576, -6>>, <<580703, -6>>,
    <<587785, -6>>, <<594823, -6>>, <<601815, -6>>, <<608761, -6>>, <<615661, -6>>, <<622515, -6>>,
    <<629320, -6>>, <<636078, -6>>, <<642788, -6>>, <<649448, -6>>, <<656059, -6>>, <<662620, -6>>,
    <<669131, -6>>, <<675590, -6>>, <<681998, -6>>, <<688355, -6>>, <<694658, -6>>, <<700909, -6>>,
    <<707107, -6>>, <<713250, -6>>, <<719340, -6>>, <<725374, -6>>, <<731354, -6>>, <<737277, -6>>,
    <<743145, -6>>, <<748956, -6>>, <<754710, -6>>, <<760406, -6>>, <<766044, -6>>, <<771625, -6>>,
    <<777146, -6>>, <<782608, -6>>, <<788011, -6>>, <<793353, -6>>, <<798636, -6>>, <<803857, -6>>,
    <<809017, -6>>, <<814116, -6>>, <<819152, -6>>, <<824126, -6>>, <<829038, -6>>, <<833886, -6>>,
    <<838671, -6>>, <<843391, -6>>, <<848048, -6>>, <<852640, -6>>, <<857167, -6>>, <<861629, -6>>,
    <<866025, -6>>, <<870356, -6>>, <<874620, -6>>, <<878817, -6>>, <<882948, -6>>, <<887011, -6>>,
    <<891007, -6>>, <<894934, -6>>, <<898794, -6>>, <<902585, -6>>, <<906308, -6>>, <<909961, -6>>,
    <<913545, -6>>, <<917060, -6>>, <<920505, -6>>, <<923880, -6>>, <<927184, -6>>, <<930418, -6>>,
    <<933580, -6>>, <<936672, -6>>, <<939693, -6>>, <<942641, -6>>, <<945519, -6>>, <<948324, -6>>,
    <<951057, -6>>, <<953717, -6>>, <<956305, -6>>, <<958820, -6>>, <<961262, -6>>, <<963630, -6>>,
    <<965926, -6>>, <<968148, -6>>, <<970296, -6>>, <<972370, -6>>, <<974370, -6>>, <<976296, -6>>,
    <<978148, -6>>, <<979925, -6>>, <<981627, -6>>, <<983255, -6>>, <<984808, -6>>, <<986286, -6>>,
    <<987688, -6>>, <<989016, -6>>, <<990268, -6>>, <<991445, -6>>, <<992546, -6>>, <<993572, -6>>,
    <<994522, -6>>, <<995396, -6>>, <<996195, -6>>, <<996917, -6>>, <<997564, -6>>, <<998135, -6>>,
    <<998630, -6>>, <<999048, -6>>, <<999391, -6>>, <<999657, -6>>, <<999848, -6>>, <<999962, -6>>,
    <<100000, -5>>
  >>

CosTab ==
  <<
    <<100000, -5>>, <<999962, -6>>, <<999848, -6>>, <<999657, -6>>, <<999391, -6>>, <<999048, -6>>,
    <<998630, -6>>, <<998135, -6>>, <<997564, -6>>, <<996917, -6>>, <<996195, -6>>, <<995396, -6>>,
    <<994522, -6>>, <<993572, -6>>, <<992546, -6>>, <<991445, -6>>, <<990268, -6>>, <<989016, -6>>,
    <<987688, -6>>, <<986286, -6>>, <<984808, -6>>, <<983255, -6>>, <<981627, -6>>, <<979925, -6>>,
    <<978148, -6>>, <<976296, -6>>, <<974370, -6>>, <<972370, -6>>, <<970296, -6>>, <<968148, -6>>,
    <<965926, -6>>, <<963630, -6>>, <<961262, -6>>, <<958820, -6>>, <<956305, -6>>, <<953717, -6>>,
    <<951057, -6>>, <<948324, -6>>, <<945519, -6>>, <<942641, -6>>, <<939693, -6>>, <<936672, -6>>,
    <<933580, -6>>, <<930418, -6>>, <<927184, -6>>, <<923880, -6>>, <<920505, -6>>, <<917060, -6>>,
    <<913545, -6>>, <<909961, -6>>, <<906308, -6>>, <<902585, -6>>, <<898794, -6>>, <<894934, -6>>,
    <<891007, -6>>, <<887011, -6>>, <<882948, -6>>, <<878817, -6>>, <<874620, -6>>, <<870356, -6>>,
    <<866025, -6>>, <<861629, -6>>, <<857167, -6>>, <<852640, -6>>, <<848048, -6>>, <<843391, -6>>,
    <<838671, -6>>, <<833886, -6>>, <<829038, -6>>, <<824126, -6>>, <<819152, -6>>, <<814116, -6>>,
    <<809017, -6>>, <<803857, -6>>, <<798636, -6>>, <<793353, -6>>, <<788011, -6>>, <<782608, -6>>,
    <<777146, -6>>, <<771625, -6>>, <<766044, -6>>, <<760406, -6>>, <<754710, -6>>, <<748956, -6>>,
    <<743145, -6>>, <<737277, -6>>, <<731354, -6>>, <<725374, -6>>, <<719340, -6>>, <<713250, -6>>,
    <<707107, -6>>, <<700909, -6>>, <<694658, -6>>, <<688355, -6>>, <<681998, -6>>, <<675590, -6>>,
    <<669131, -6>>, <<662620, -6>>, <<656059, -6>>, <<649448, -6>>, <<642788, -6>>, <<636078, -6>>,
    <<629320, -6>>, <<622515, -6>>, <<615661, -6>>, <<608761, -6>>, <<601815, -6>>, <<594823, -6>>,
    <<587785, -6>>, <<580703, -6>>, <<573576, -6>>, <<566406, -6>>, <<559193, -6>>, <<551937, -6>>,
    <<544639, -6>>, <<537300, -6>>, <<529919, -6>>, <<522499, -6>>, <<515038, -6>>, <<507538, -6>>,
    <<500000, -6>>, <<492424, -6>>, <<484810, -6>>, <<477159, -6>>, <<469472, -6>>, <<461749, -6>>,
    <<453990, -6>>, <<446198, -6>>, <<438371, -6>>, <<430511, -6>>, <<422618, -6>>, <<414693, -6>>,
    <<406737, -6>>, <<398749, -6>>, <<390731, -6>>, <<382683, -6>>, <<374607, -6>>, <<366501, -6>>,
    <<358368, -6>>, <<350207, -6>>, <<342020, -6>>, <<333807, -6>>, <<325568, -6>>, <<317305, -6>>,
    <<309017, -6>>, <<300706, -6>>, <<292372, -6>>, <<284015, -6>>, <<275637, -6>>, <<267238, -6>>,
    <<258819, -6>>, <<250380, -6>>, <<241922, -6>>, <<233445, -6>>, <<224951, -6>>, <<216440, -6>>,
    <<207912, -6>>, <<199368, -6>>, <<190809, -6>>, <<182236, -6>>, <<173648, -6>>, <<165048, -6>>,
    <<156434, -6>>, <<147809, -6>>, <<139173, -6>>, <<130526, -6>>, <<121869, -6>>, <<113203, -6>>,
    <<104528, -6>>, <<958458, -7>>, <<871557, -7>>, <<784591, -7>>, <<697565, -7>>, <<610485, -7>>,
    <<523360, -7>>, <<436194, -7>>, <<348995, -7>>, <<261769, -7>>, <<174524, -7>>, <<872654, -8>>,
    <<612323, -22>>
  >>

\* astropy's unit scales, and the half-degree steps of the tables.
DegToRad == F(174533, -7)

RadToDeg == F(572958, -4)

ArcminToRad == F(290888, -9)

HalfDegPerRad == F(114592, -3)

RadPerHalfDeg == F(872665, -8)

Pi == F(314159, -5)

HalfPi == F(157080, -5)

\* numpy's sin(pi): the residual of pi's rounding.
SinPi == F(122465, -21)

\* Exact small constants of the code.
Half == F(5, -1)

Ninety == F(90, 0)

ArcsecPerDeg == F(3600, 0)

ArcminPerDeg == F(60, 0)

\* Entry h of a table, as a float (the entries are six-digit mantissas).
Entry(tab, h) == [k |-> "fin", m |-> tab[h + 1][1], e |-> tab[h + 1][2]]

\* The table index (half degrees) of an angle in radians.
TrigIdx(r) == RoundInt(Mul(r, HalfDegPerRad))

\* An index brought into -360..360 (one turn is 720 half degrees).
Wrap(h) == IF h > 360 THEN h - 720 ELSE IF h < -360 THEN h + 720 ELSE h

CosIdx(h) ==
  LET a == Abs(Wrap(h))
  IN  IF a <= 180 THEN Entry(CosTab, a) ELSE Neg(Entry(CosTab, 360 - a))

SinIdx(h) ==
  LET w == Wrap(h)
      a == Abs(w)
      v == IF a <= 180 THEN Entry(SinTab, a)
           ELSE IF a = 360 THEN SinPi
           ELSE Entry(SinTab, 360 - a)
  IN  IF w < 0 THEN Neg(v) ELSE v

\* numpy.cos and numpy.sin of an angle in radians.
Cos(r) == IF r.k # "fin" THEN NaN ELSE CosIdx(TrigIdx(r))

Sin(r) == IF r.k # "fin" THEN NaN ELSE SinIdx(TrigIdx(r))

\* Largest h in lo..hi-1 with tan(h half degrees) <= a, for a >= 0.
RECURSIVE TanFloor(_, _, _)
TanFloor(a, lo, hi) ==
  IF hi - lo <= 1 THEN lo
  ELSE LET mid == (lo + hi) \div 2
       IN  IF Leq(Entry(SinTab, mid), Mul(a, Entry(CosTab, mid)))
             THEN TanFloor(a, mid, hi)
             ELSE TanFloor(a, lo, mid)

\* The half degree whose tangent is nearest to a >= 0.
ArcTanIdx(a) ==
  LET h  == TanFloor(a, 0, 181)
      d0 == FAbs(Sub(Mul(a, Entry(CosTab, h)), Entry(SinTab, h)))
      d1 == FAbs(Sub(Mul(a, Entry(CosTab, h + 1)), Entry(SinTab, h + 1)))
  IN  IF h < 180 /\ Lt(d1, d0) THEN h + 1 ELSE h

\* A faulty arctangent: an infinite argument is invalid and gives NaN.
ArcTan_nan(q) ==
  IF q.k # "fin" THEN NaN
  ELSE Mul(F(FSgn(q) * ArcTanIdx(FAbs(q)), 0), RadPerHalfDeg)

\* numpy.arctan, in radians: arctan(+/-inf) = +/-pi/2, arctan(NaN) = NaN.
ArcTan(q) ==
  IF q.k = "nan" THEN NaN
  ELSE IF q.k = "inf" THEN (IF q.m > 0 THEN HalfPi ELSE Neg(HalfPi))
  ELSE Mul(F(FSgn(q) * ArcTanIdx(FAbs(q)), 0), RadPerHalfDeg)

\* numpy.arctan2(b, a), the four-quadrant arctangent, in radians.
ArcTan2(b, a) ==
  IF a.k = "nan" \/ b.k = "nan" THEN NaN
  ELSE IF FSgn(a) > 0 THEN ArcTan(Div(b, a))
  ELSE IF FSgn(a) < 0
    THEN IF FSgn(b) >= 0 THEN Add(Pi, ArcTan(Div(b, a)))
         ELSE Add(Neg(Pi), ArcTan(Div(b, a)))
  ELSE IF FSgn(b) > 0 THEN HalfPi
  ELSE IF FSgn(b) < 0 THEN Neg(HalfPi)
  ELSE Zero

\* A sky coordinate on the half-degree grid, as floats in degrees.
Deg(h) == F(5 * h, -1)

SkyCoord(ra, dec) == [ra |-> Deg(ra), dec |-> Deg(dec)]

\* SkyCoord.separation: the great-circle separation, in degrees
\* (astropy's angular_separation, the Vincenty formula).
separation(c1, c2) ==
  LET dlon  == Mul(Sub(c2.ra, c1.ra), DegToRad)
      lat1  == Mul(c1.dec, DegToRad)
      lat2  == Mul(c2.dec, DegToRad)
      sdlon == Sin(dlon)
      cdlon == Cos(dlon)
      slat1 == Sin(lat1)
      slat2 == Sin(lat2)
      clat1 == Cos(lat1)
      clat2 == Cos(lat2)
      num1  == Mul(clat2, sdlon)
      num2  == Sub(Mul(clat1, slat2), Mul(Mul(slat1, clat2), cdlon))
      den   == Add(Mul(slat1, slat2), Mul(Mul(clat1, clat2), cdlon))
      hyp   == Sqrt(Add(Mul(num1, num1), Mul(num2, num2)))
  IN  Mul(ArcTan2(hyp, den), RadToDeg)

\* astropy's Distance(value): ValueError for a negative value (NaN passes).
ValueError == [k |-> "err", m |-> 0, e |-> 0]

Distance(v) == IF Lt(v, Zero) THEN ValueError ELSE v

(***************************************************************************)
(* correct_rgc, statement by statement: each operator is the right-hand    *)
(* side of one assignment, for one coordinate.                             *)
(***************************************************************************)
sky_radius(glx_ctr_, coord_) == separation(glx_ctr_, coord_)

avg_dec(glx_ctr_, coord_) ==
  Mul(Mul(Half, Add(glx_ctr_.dec, coord_.dec)), DegToRad)

x(glx_ctr_, coord_, avg_dec_) == Mul(Sub(glx_ctr_.ra, coord_.ra), Cos(avg_dec_))

y(glx_ctr_, coord_) == Sub(glx_ctr_.dec, coord_.dec)

\* y.arcsec / x.arcsec
yx_ratio(y_, x_) == Div(Mul(y_, ArcsecPerDeg), Mul(x_, ArcsecPerDeg))

\* glx_PA - Angle('90d') + Angle(at, unit=u.rad), in degrees.
phi_of(glx_PA_, at) == Add(Sub(glx_PA_, Ninety), Mul(at, RadToDeg))

phi(glx_PA_, y_, x_) == phi_of(glx_PA_, ArcTan(yx_ratio(y_, x_)))

xp(sky_radius_, phi_) == Mul(Mul(sky_radius_, Cos(Mul(phi_, DegToRad))), ArcminPerDeg)

yp(sky_radius_, phi_) == Mul(Mul(sky_radius_, Sin(Mul(phi_, DegToRad))), ArcminPerDeg)

\* Faulty deprojections: the sine for the cosine, a product for the
\* quotient, and the flag ignored.
ypp_sine(yp_, glx_incl_, deproject_) ==
  IF deproject_ THEN Div(yp_, Sin(Mul(glx_incl_, DegToRad))) ELSE yp_

ypp_times(yp_, glx_incl_, deproject_) ==
  IF deproject_ THEN Mul(yp_, Cos(Mul(glx_incl_, DegToRad))) ELSE yp_

ypp_skip(yp_, glx_incl_, deproject_) == yp_

\* Lines 53-56: the deprojection of the minor-axis offset.
ypp(yp_, glx_incl_, deproject_) ==
  IF deproject_ THEN Div(yp_, Cos(Mul(glx_incl_, DegToRad))) ELSE yp_

obj_radius(xp_, ypp_) == Sqrt(Add(Mul(xp_, xp_), Mul(ypp_, ypp_)))

\* Angle(obj_radius, unit=u.arcmin).radian * glx_dist, before Distance(...).
obj_length(obj_radius_, glx_dist_) == Mul(Mul(obj_radius_, ArcminToRad), glx_dist_)

\* The position angle in the disk (computed and not used).
obj_phi(ypp_, xp_) == ArcTan(Div(ypp_, xp_))

\* correct_rgc on a single coordinate: the value returned.
correct_rgc(coord_, glx_ctr_, glx_PA_, glx_incl_, glx_dist_, deproject_) ==
  LET sr  == sky_radius(glx_ctr_, coord_)
      ph  == phi(glx_PA_, y(glx_ctr_, coord_),
                 x(glx_ctr_, coord_, avg_dec(glx_ctr_, coord_)))
      r   == obj_radius(xp(sr, ph), ypp(yp(sr, ph), glx_incl_, deproject_))
  IN  Distance(obj_length(r, glx_dist_))

\* A faulty Distance on an array: the NaN elements are dropped.
DistanceArray_drop(vs) ==
  IF \E k \in DOMAIN vs : Lt(vs[k], Zero) THEN ValueError
  ELSE [k |-> "arr", v |-> SelectSeq(vs, LAMBDA d : ~IsNaN(d))]

\* Distance(...) on an array rejects the whole array if any element is
\* negative.
DistanceArray(vs) ==
  IF \E k \in DOMAIN vs : Lt(vs[k], Zero) THEN ValueError
  ELSE [k |-> "arr", v |-> vs]

(***************************************************************************)
(* The calls.  Angles and coordinates are drawn from the half-degree grid  *)
(* (an integer h stands for h/2 degrees); the galaxy distance is a         *)
(* positive number of kpc.                                                 *)
(***************************************************************************)
\* Largest offset of a coordinate from the centre, per axis, in half degrees.
MaxOff == 1

\* Largest length of a coordinate array.
MaxLen == 2

\* The defaults of the signature, on the grid: 00h42m44.33s +41d16m07.5s,
\* 37d42m54s, 77.5d, 783 kpc.
DefaultRA == 21

DefaultDec == 83

DefaultPA == 75

DefaultIncl == 155

DefaultDist == 783

Centres == {<<DefaultRA, DefaultDec>>, <<DefaultRA, 0>>}

PAs == {0, DefaultPA, 180, 270}

Incls == {0, 60, 120, DefaultIncl, 180}

Dists == {1, DefaultDist}

Offsets == (-MaxOff..MaxOff) \X (-MaxOff..MaxOff)

\* Offsets of the elements of an array: the centre, the same RA, a diagonal.
ArrayOffsets == {<<0, 0>>, <<0, 1>>, <<-1, 1>>}

None == [k |-> "none", m |-> 0, e |-> 0]

\* The local variables before their assignments.
NoLocals ==
  [sky_radius |-> None, avg_dec |-> None, x |-> None, y |-> None, phi |-> None,
   xp |-> None, yp |-> None, ypp |-> None, obj_radius |-> None, obj_phi |-> None]

VARIABLES pc, shape, coord, glx_ctr, glx_PA, glx_incl, glx_dist, deproject,
          locals, obj_dist

vars == <<pc, shape, coord, glx_ctr, glx_PA, glx_incl, glx_dist, deproject,
          locals, obj_dist>>

\* The arguments of a call; pc is 0 between calls and otherwise the line of
\* the next statement.  A single coordinate is held as an array of length 1.
args == <<shape, coord, glx_ctr, glx_PA, glx_incl, glx_dist, deproject>>

Init ==
  /\ pc = 0
  /\ shape = "scalar"
  /\ coord = <<>>
  /\ glx_ctr = <<DefaultRA, DefaultDec>>
  /\ glx_PA = DefaultPA
  /\ glx_incl = DefaultIncl
  /\ glx_dist = DefaultDist
  /\ deproject = TRUE
  /\ locals = NoLocals
  /\ obj_dist = None

At(c) == SkyCoord(c[1], c[2])

\* The arguments of the call in progress, as the code's quantities.
Ctr == At(glx_ctr)

PA == Deg(glx_PA)

Incl == Deg(glx_incl)

Dist == F(glx_dist, 0)

\* A caller passes a single coordinate.
CallScalar ==
  /\ pc = 0
  /\ \E ctr \in Centres, off \in Offsets, pa \in PAs, incl \in Incls,
        dist \in Dists, dp \in BOOLEAN :
       /\ shape' = "scalar"
       /\ coord' = <<<<ctr[1] + off[1], ctr[2] + off[2]>>>>
       /\ glx_ctr' = ctr
       /\ glx_PA' = pa
       /\ glx_incl' = incl
       /\ glx_dist' = dist
       /\ deproject' = dp
  /\ pc' = 38
  /\ UNCHANGED <<locals, obj_dist>>

\* A caller passes an array of coordinates.
CallArray ==
  /\ pc = 0
  /\ \E ctr \in Centres, n \in 1..MaxLen, pa \in PAs, incl \in Incls,
        dist \in Dists, dp \in BOOLEAN :
       \E offs \in [1..n -> ArrayOffsets] :
         /\ shape' = "array"
         /\ coord' = [k \in 1..n |-> <<ctr[1] + offs[k][1], ctr[2] + offs[k][2]>>]
         /\ glx_ctr' = ctr
         /\ glx_PA' = pa
         /\ glx_incl' = incl
         /\ glx_dist' = dist
         /\ deproject' = dp
  /\ pc' = 38
  /\ UNCHANGED <<locals, obj_dist>>

\* An assignment to local variable f of one value per coordinate.
Assign(f, v, next) ==
  /\ locals' = [locals EXCEPT ![f] = v]
  /\ pc' = next
  /\ UNCHANGED <<args, obj_dist>>

L38_sky_radius ==
  /\ pc = 38
  /\ Assign("sky_radius", [k \in DOMAIN coord |-> sky_radius(Ctr, At(coord[k]))], 39)

L39_avg_dec ==
  /\ pc = 39
  /\ Assign("avg_dec", [k \in DOMAIN coord |-> avg_dec(Ctr, At(coord[k]))], 40)

L40_x ==
  /\ pc = 40
  /\ Assign("x", [k \in DOMAIN coord |-> x(Ctr, At(coord[k]), locals.avg_dec[k])], 41)

L41_y ==
  /\ pc = 41
  /\ Assign("y", [k \in DOMAIN coord |-> y(Ctr, At(coord[k]))], 43)

L43_phi ==
  /\ pc = 43
  /\ Assign("phi", [k \in DOMAIN coord |-> phi(PA, locals.y[k], locals.x[k])], 49)

L49_xp ==
  /\ pc = 49
  /\ Assign("xp", [k \in DOMAIN coord |-> xp(locals.sky_radius[k], locals.phi[k])], 50)

L50_yp ==
  /\ pc = 50
  /\ Assign("yp", [k \in DOMAIN coord |-> yp(locals.sky_radius[k], locals.phi[k])], 53)

L53_ypp ==
  /\ pc = 53
  /\ Assign("ypp", [k \in DOMAIN coord |-> ypp(locals.yp[k], Incl, deproject)], 57)

L57_obj_radius ==
  /\ pc = 57
  /\ Assign("obj_radius",
            [k \in DOMAIN coord |-> obj_radius(locals.xp[k], locals.ypp[k])], 59)

\* Distance(...): a ValueError leaves the function at once.
L59_obj_dist ==
  /\ pc = 59
  /\ obj_dist' =
       IF shape = "scalar" THEN Distance(obj_length(locals.obj_radius[1], Dist))
       ELSE DistanceArray([k \in DOMAIN coord |-> obj_length(locals.obj_radius[k], Dist)])
  /\ pc' = IF obj_dist' = ValueError THEN 68 ELSE 63
  /\ UNCHANGED <<args, locals>>

L63_obj_phi ==
  /\ pc = 63
  /\ Assign("obj_phi", [k \in DOMAIN coord |-> obj_phi(locals.ypp[k], locals.xp[k])], 68)

\* The caller takes the result; nothing is kept between calls.
Return ==
  /\ pc = 68
  /\ pc' = 0
  /\ shape' = "scalar"
  /\ coord' = <<>>
  /\ glx_ctr' = <<DefaultRA, DefaultDec>>
  /\ glx_PA' = DefaultPA
  /\ glx_incl' = DefaultIncl
  /\ glx_dist' = DefaultDist
  /\ deproject' = TRUE
  /\ locals' = NoLocals
  /\ obj_dist' = None

Next ==
  \/ CallScalar \/ CallArray
  \/ L38_sky_radius \/ L39_avg_dec \/ L40_x \/ L41_y \/ L43_phi
  \/ L49_xp \/ L50_yp \/ L53_ypp \/ L57_obj_radius \/ L59_obj_dist \/ L63_obj_phi
  \/ Return

Spec == Init /\ [][Next]_vars

(***************************************************************************)
(* Properties.                                                             *)
(***************************************************************************)
\* The call has run to its return statement.
Returned == pc = 68

Scalar == shape = "scalar"

\* The coordinate of a scalar call.
C == At(coord[1])

\* The same call with another inclination or another deproject flag.
Again(glx_incl_, deproject_) == correct_rgc(C, Ctr, PA, glx_incl_, Dist, deproject_)

\* The target is away from the centre: the separation is positive.
OffCentre == Lt(Zero, locals.sky_radius[1])

\* The target is away from the major axis: phi is no multiple of 180 degrees.
OffMajorAxis ==
  /\ IsFinite(locals.phi[1])
  /\ TrigIdx(Mul(locals.phi[1], DegToRad)) % 360 # 0
  /\ ~IsZero(locals.yp[1])

\* An ordinary distance: a finite number that is not negative.
Ordinary(d) == d.k = "fin" /\ d.m >= 0

\* The domain-error outcome: an error raised, or NaN or infinity returned.
DomainError(d) == d.k \in {"err", "nan", "inf"}

\* Equal to six-digit rounding: within one part in 10^4.
Close(a, b) ==
  /\ IsFinite(a) /\ IsFinite(b)
  /\ Leq(FAbs(Sub(a, b)), Mul(F(1, -4), FAbs(b)))

\* C1: a call on the galaxy centre itself returns the distance 0.
C1_Identity ==
  (Returned /\ Scalar /\ coord[1] = glx_ctr) => obj_dist = Zero

C1_Witness ==
  /\ Returned /\ Scalar /\ coord[1] = glx_ctr
  /\ IsZero(locals.sky_radius[1]) /\ IsZero(locals.x[1]) /\ IsZero(locals.y[1])
  /\ IsNaN(yx_ratio(locals.y[1], locals.x[1])) /\ IsNaN(locals.phi[1]) /\ IsNaN(obj_dist)

\* C2: without deprojection the result is the same for every inclination and
\* is the separation in radians times the galaxy distance.
C2_ProjectedRadius ==
  (Returned /\ Scalar /\ ~deproject) =>
    /\ \A i \in Incls : Again(Deg(i), FALSE) = obj_dist
    /\ Close(obj_dist, Mul(Mul(locals.sky_radius[1], DegToRad), Dist))

C2_Witness ==
  /\ Returned /\ Scalar /\ ~deproject /\ ~OffCentre
  /\ IsNaN(obj_dist) /\ IsZero(Mul(Mul(locals.sky_radius[1], DegToRad), Dist))

\* C2 away from the centre, where the quotient y/x is not 0/0.
C2_OffCentre == (Returned /\ Scalar /\ OffCentre) => C2_ProjectedRadius

\* C3: at inclination 0 the call returns the same with deproject true and false.
C3_NoOpAtZeroInclination ==
  (Returned /\ Scalar /\ glx_incl = 0) => obj_dist = Again(Incl, ~deproject)

C3_Witness ==
  /\ Returned /\ Scalar /\ glx_incl = 0 /\ deproject
  /\ OffCentre /\ OffMajorAxis
  /\ Ordinary(obj_dist) /\ obj_dist = Again(Incl, FALSE)

C5_ArrayScalarConsistency ==
  (Returned /\ shape = "array") =>
    /\ obj_dist.k = "arr"
    /\ Len(obj_dist.v) = Len(coord)
    /\ \A k \in 1..Len(coord) :
         obj_dist.v[k] = correct_rgc(At(coord[k]), Ctr, PA, Incl, Dist, deproject)

C5_Witness ==
  /\ Returned /\ shape = "array" /\ Len(coord) = 2
  /\ coord[1] = glx_ctr /\ coord[2] # glx_ctr
  /\ obj_dist.k = "arr" /\ Len(obj_dist.v) = 2
  /\ IsNaN(obj_dist.v[1]) /\ Ordinary(obj_dist.v[2])

C7_EdgeOnDomainError ==
  (Returned /\ Scalar /\ deproject /\ glx_incl = 180) => DomainError(obj_dist)

C7_Witness ==
  /\ Returned /\ Scalar /\ deproject /\ glx_incl = 180
  /\ OffCentre /\ OffMajorAxis
  /\ Ordinary(obj_dist) /\ Lt(Dist, obj_dist)

\* C8: every distance returned is a non-negative number.
C8_NonNegative ==
  Returned =>
    IF Scalar THEN obj_dist.k = "err" \/ Ordinary(obj_dist)
    ELSE obj_dist.k = "err" \/ \A k \in DOMAIN obj_dist.v : Ordinary(obj_dist.v[k])

C8_Witness ==
  /\ Returned /\ shape = "array" /\ obj_dist.k = "arr"
  /\ \E k \in DOMAIN obj_dist.v : IsNaN(obj_dist.v[k])

\* C9: when x is 0 and y is not, the call ends in the domain-error outcome.
C9_ArctanDomainError ==
  (Returned /\ Scalar /\ IsZero(locals.x[1]) /\ ~IsZero(locals.y[1])) => DomainError(obj_dist)

\* C9, amended: when x is 0 and y is not, y/x is an infinity, its arctangent
\* is +/-90 degrees, and the call returns an ordinary finite distance.
C9_ArctanOfInfinity ==
  (Returned /\ Scalar /\ IsZero(locals.x[1]) /\ ~IsZero(locals.y[1])) =>
    /\ IsInf(yx_ratio(locals.y[1], locals.x[1]))
    /\ locals.phi[1] \in {phi_of(PA, HalfPi), phi_of(PA, Neg(HalfPi))}
    /\ Ordinary(obj_dist) /\ ~IsZero(obj_dist)

C9_Witness ==
  /\ Returned /\ Scalar /\ IsZero(locals.x[1]) /\ ~IsZero(locals.y[1])
  /\ yx_ratio(locals.y[1], locals.x[1]) = Inf(-1)
  /\ Ordinary(obj_dist) /\ ~IsZero(obj_dist)

\* correct_rgc with the four-quadrant arctangent arctan2(y, x) for phi.
correct_rgc_atan2(coord_, glx_ctr_, glx_PA_, glx_incl_, glx_dist_, deproject_) ==
  LET sr == sky_radius(glx_ctr_, coord_)
      yv == y(glx_ctr_, coord_)
      xv == x(glx_ctr_, coord_, avg_dec(glx_ctr_, coord_))
      ph == phi_of(glx_PA_, ArcTan2(Mul(yv, ArcsecPerDeg), Mul(xv, ArcsecPerDeg)))
      r  == obj_radius(xp(sr, ph), ypp(yp(sr, ph), glx_incl_, deproject_))
  IN  Distance(obj_length(r, glx_dist_))

\* C10: for x # 0 the call returns what it would return with arctan2(y, x).
C10_QuadrantHarmless ==
  (Returned /\ Scalar /\ ~IsZero(locals.x[1])) =>
    obj_dist = correct_rgc_atan2(C, Ctr, PA, Incl, Dist, deproject)

C10_Witness ==
  /\ Returned /\ Scalar /\ deproject /\ glx_incl = 180 /\ ~IsZero(locals.x[1])
  /\ Ordinary(obj_dist)
  /\ Ordinary(correct_rgc_atan2(C, Ctr, PA, Incl, Dist, deproject))
  /\ obj_dist # correct_rgc_atan2(C, Ctr, PA, Incl, Dist, deproject)

\* C10 below 90 degrees of inclination, or without deprojection.
C10_BelowEdgeOn == (glx_incl < 180 \/ ~deproject) => C10_QuadrantHarmless

====
